---------------------------- MODULE Spec2Model ----------------------------
(***************************************************************************)
(* Banking front end (src/Phase2.py): the session state machine, the       *)
(* buffered request reader with its one-line lookahead, the account        *)
(* ledger and the per-transaction rule chains of FrontEndController.       *)
(*                                                                         *)
(* One action is one iteration of the driver loop of                       *)
(* FrontEndApplication.run: the read of the transaction code and the       *)
(* whole handler it dispatches to, with every parameter line the handler   *)
(* reads.  The request stream is not stored: a read that goes to the       *)
(* underlying stream takes either some line or the end of the stream, and  *)
(* once the end was seen every later read sees it too (an exhausted        *)
(* iterator stays exhausted).  Money is counted in whole dollars.          *)
(***************************************************************************)
EXTENDS Integers, Sequences, FiniteSets, TLC

\* ---------------- Constants of the program ----------------
WITHDRAWAL_LIMIT_STANDARD == 500
TRANSFER_LIMIT_STANDARD == 1000
PAYBILL_LIMIT_STANDARD == 2000
MAX_ACCOUNT_NAME_LEN == 20
MAX_BALANCE == 99999
VALID_BILL_COMPANIES == {"EC", "CQ", "FI"}
\* range(10001, 99999) of findNextAvailableAccountNumber
FIRST_ACCOUNT_NUMBER == 10001
END_ACCOUNT_NUMBER == 99999

\* ---------------- Bounds of the model ----------------
\* Number of driver iterations that run a handler.
MaxTx == 5
\* The longest input stream of a run over a stream of fixed length: as many
\* lines as handlers may run, a handler taking at least its code line.
MaxLines == MaxTx

\* The value _next_line returns at the end of the stream (None), and the
\* value a handler returns when it prints nothing (None).
None == "<None>"
EOF == None
NoResponse == None

\* The lines the request stream may hold, by the position a well-formed
\* stream has them in; every set holds the empty line and a line that is
\* none of the expected values.
LongName == "AVeryLongAccountHolderName"
CodeLines ==
    {"login", "logout", "withdrawal", "deposit", "transfer", "paybill",
     "create", "delete", "disable", "changeplan",
     " Deposit ", "", "bogus"}
ModeLines == {"admin", "standard", "Standard", "", "bogus"}
NameLines == {"Alice", "Bob", ""}
CreateNameLines == NameLines \cup {LongName}
AccLines == {"10001", "10002", "", "bogus"}
AmtLines == {"100", "10001", "-5", "nan", "", "bogus"}
CompanyLines == {"EC", "XX", ""}
\* The name line an admin session reads and ignores.
IgnoredLines == {"Alice"}

\* ---------------- str methods, on the lines above ----------------
\* str.strip()
Strip(s) == CASE s = " Deposit " -> "Deposit"
              [] OTHER -> s

\* The line as it is, its case kept.
Lower_case_kept(s) == s

\* str.lower()
Lower(s) == CASE s = "Deposit" -> "deposit"
              [] s = " Deposit " -> " deposit "
              [] s = "Standard" -> "standard"
              [] s = "Alice" -> "alice"
              [] s = "Bob" -> "bob"
              [] s = "EC" -> "ec"
              [] s = "XX" -> "xx"
              [] s = LongName -> "averylongaccountholdername"
              [] OTHER -> s

\* len(s)
StrLen(s) == CASE s = "" -> 0
               [] s \in {"EC", "XX", "-5"} -> 2
               [] s \in {"100", "Bob", "nan"} -> 3
               [] s \in {"10001", "10002", "Alice", "admin", "bogus"} -> 5
               [] s = LongName -> 26
               [] OTHER -> 8

\* str.isdigit()
IsDigit(s) == s \in {"100", "10001", "10002"}

\* A float is a whole number or nan, the float that float("nan") returns.
NaN == -999999

\* a < b, a <= b, a > b, a + b and a - b on floats: a comparison with nan
\* is false, a sum or difference with nan is nan
FLt(a, b) == a # NaN /\ b # NaN /\ a < b
FLe(a, b) == a # NaN /\ b # NaN /\ a <= b
FGt(a, b) == a # NaN /\ b # NaN /\ a > b
FAdd(a, b) == IF a = NaN \/ b = NaN THEN NaN ELSE a + b
FSub(a, b) == IF a = NaN \/ b = NaN THEN NaN ELSE a - b

\* float(s): <<TRUE, value>>, or <<FALSE, 0>> for ValueError
ParseFloat(s) == CASE s = "100" -> <<TRUE, 100>>
                   [] s = "10001" -> <<TRUE, 10001>>
                   [] s = "10002" -> <<TRUE, 10002>>
                   [] s = "-5" -> <<TRUE, -5>>
                   [] s = "nan" -> <<TRUE, NaN>>
                   [] OTHER -> <<FALSE, 0>>

\* (line or "").strip()
OrEmptyStrip(l) == IF l = EOF THEN "" ELSE Strip(l)

\* str(n).zfill(5)
IdStr(n) == CASE n = 10001 -> "10001"
              [] n = 10002 -> "10002"
              [] n = 10003 -> "10003"
              [] n = 10004 -> "10004"

VARIABLES
    logged_in,              \* SessionState.logged_in
    admin_mode,             \* SessionState.admin_mode
    account_holder_name,    \* SessionState.account_holder_name
    ever_logged_in,         \* SessionState.ever_logged_in
    accounts,               \* BankAccountsFile.accounts: id -> record
    records,                \* DailyTransactionFileWriter.records
    sink,                   \* the lines of the transaction output file
    created_this_session,   \* FrontEndController.created_this_session
    deleted_this_session,   \* FrontEndController.deleted_this_session
    buffer,                 \* FrontEndController._buffer
    eof,                    \* the underlying line iterator is exhausted
    pc,                     \* where the loop of FrontEndApplication.run is
    code,                   \* this iteration's code, as dispatched
    response,               \* what this iteration's handler returned
    consumed,               \* lines the handler took, net of push-back
    args,                   \* what its _next_line calls returned, in order
    ntx,                    \* handlers run so far
    left                    \* lines the line iterator still holds

vars == <<logged_in, admin_mode, account_holder_name, ever_logged_in,
          accounts, records, sink, created_this_session,
          deleted_this_session, buffer, eof, pc, code, response,
          consumed, args, ntx, left>>

sessionVars == <<logged_in, admin_mode, account_holder_name, ever_logged_in>>
ledgerVars == <<accounts, created_this_session, deleted_this_session>>
logVars == <<records, sink>>

\* ---------------- BankAccountsFile ----------------
Account(name, status, balance) ==
    [name |-> name, status |-> status, balance |-> balance]

doesAccountExist(accs, accNum) == accNum \in DOMAIN accs
isAccountDisabled(accs, accNum) ==
    accNum \in DOMAIN accs /\ accs[accNum].status = "D"
isAccountOwnedBy(accs, accNum, name) ==
    accNum \in DOMAIN accs /\ accs[accNum].name = name
getBalance(accs, accNum) == accs[accNum].balance
setBalance(accs, accNum, newBalance) ==
    [accs EXCEPT ![accNum].balance = newBalance]
nameExists(accs, name) == \E a \in DOMAIN accs : accs[a].name = name
createAccount(accs, accNum, name, balance) ==
    [a \in DOMAIN accs \cup {accNum} |->
        IF a = accNum THEN Account(name, "A", balance) ELSE accs[a]]
deleteAccount(accs, accNum) ==
    [a \in DOMAIN accs \ {accNum} |-> accs[a]]
disableAccount(accs, accNum) ==
    IF accNum \in DOMAIN accs
    THEN [accs EXCEPT ![accNum].status = "D"]
    ELSE accs

RECURSIVE ScanAccountNumbers(_, _)
ScanAccountNumbers(accs, n) ==
    IF n >= END_ACCOUNT_NUMBER THEN None
    ELSE IF IdStr(n) \notin DOMAIN accs THEN IdStr(n)
    ELSE ScanAccountNumbers(accs, n + 1)

\* The scan started one number late.
findNextAvailableAccountNumber_late(accs) ==
    ScanAccountNumbers(accs, FIRST_ACCOUNT_NUMBER + 1)

findNextAvailableAccountNumber(accs) ==
    ScanAccountNumbers(accs, FIRST_ACCOUNT_NUMBER)

\* ---------------- DailyTransactionFileWriter ----------------
\* The fields of one record line, in the order they are formatted.
formatTransactionRecordLine(c, name, accNum, amount, misc) ==
    [code |-> c, name |-> name, accNum |-> accNum, amount |-> amount,
     misc |-> misc]
addTransactionRecord(recs, recordLine) == Append(recs, recordLine)
addEndOfSessionRecord(recs) ==
    Append(recs, formatTransactionRecordLine("00", "", "00000", 0, "  "))


\* ---------------- SessionState ----------------
\* The state the handlers work on, as one value.
Cur ==
    [logged_in |-> logged_in, admin_mode |-> admin_mode,
     account_holder_name |-> account_holder_name,
     ever_logged_in |-> ever_logged_in,
     accounts |-> accounts, records |-> records, sink |-> sink,
     created |-> created_this_session, deleted |-> deleted_this_session]

\* A session that is logged in only when it has a holder name.
startSession_named_only(st, sessionMode, accountHolderName) ==
    [st EXCEPT !.logged_in = (accountHolderName # ""
                              \/ Lower(sessionMode) = "admin"),
               !.admin_mode = (Lower(sessionMode) = "admin"),
               !.account_holder_name = accountHolderName,
               !.ever_logged_in = TRUE]

startSession(st, sessionMode, accountHolderName) ==
    [st EXCEPT !.logged_in = TRUE,
               !.admin_mode = (Lower(sessionMode) = "admin"),
               !.account_holder_name = accountHolderName,
               !.ever_logged_in = TRUE]

\* An end of session that leaves the holder name as it is.
endSession_keeps_holder(st) ==
    [st EXCEPT !.logged_in = FALSE,
               !.admin_mode = FALSE]

\* An end of session that forgets there ever was one.
endSession_forgets(st) ==
    [st EXCEPT !.logged_in = FALSE,
               !.admin_mode = FALSE,
               !.account_holder_name = "",
               !.ever_logged_in = FALSE]

endSession(st) ==
    [st EXCEPT !.logged_in = FALSE,
               !.admin_mode = FALSE,
               !.account_holder_name = ""]

\* ---------------- The buffered reader ----------------
\* A reader: the push-back buffer, whether the stream is exhausted, the
\* lines taken so far (net of push-back), the line last returned and
\* all the lines returned so far.
Reader(buf, ended) ==
    [buf |-> buf, eof |-> ended, n |-> 0, line |-> EOF, got |-> <<>>]

\* What the underlying stream may give to the next read of rd when a
\* well-formed stream holds a line of S there: nothing is asked of it while
\* the buffer holds a line, and an exhausted stream stays exhausted.
Pick(rd, S) ==
    IF rd.buf # <<>> \/ rd.eof THEN {EOF} ELSE S \cup {EOF}

\* _next_line, the stream giving `pick`
NextLine(rd, pick) ==
    IF rd.buf # <<>>
    THEN [buf |-> Tail(rd.buf), eof |-> rd.eof, n |-> rd.n + 1,
          line |-> Head(rd.buf), got |-> Append(rd.got, Head(rd.buf))]
    ELSE [buf |-> rd.buf, eof |-> rd.eof \/ pick = EOF,
          n |-> IF pick = EOF THEN rd.n ELSE rd.n + 1,
          line |-> pick, got |-> Append(rd.got, pick)]

\* _push_back
PushBack(rd, line) ==
    IF line # EOF
    THEN [rd EXCEPT !.buf = <<line>> \o rd.buf, !.n = rd.n - 1]
    ELSE rd

\* _consume_n_lines; the stream holds `avail` more lines
RECURSIVE ConsumeNLines(_, _, _)
ConsumeNLines(rd, n, avail) ==
    IF n = 0 THEN rd
    ELSE IF rd.buf # <<>>
    THEN ConsumeNLines(NextLine(rd, EOF), n - 1, avail)
    ELSE ConsumeNLines(NextLine(rd, IF avail > 0 THEN "Alice" ELSE EOF),
                       n - 1, avail - 1)

\* The table with the count of paybill one short.
ParamsWhenNotLoggedIn_short(c) ==
    CASE c \in {"withdrawal", "deposit", "paybill"} -> 3
      [] c \in {"transfer"} -> 4
      [] c \in {"create", "delete", "disable", "changeplan"} -> 2
      [] OTHER -> 0

\* the table of _consume_params_for_code_when_not_logged_in
ParamsWhenNotLoggedIn(c) ==
    CASE c \in {"withdrawal", "deposit"} -> 3
      [] c \in {"transfer", "paybill"} -> 4
      [] c \in {"create", "delete", "disable", "changeplan"} -> 2
      [] OTHER -> 0

\* ---------------- The line iterator ----------------
\* lines = iter(sys.stdin.readlines()). Its length is either left open,
\* every read of it being free to find it exhausted, or fixed when the run
\* starts.
Unbounded == -1

\* The iterator can have given k more lines to the reads of an iteration,
\* and have been found exhausted by one of them or before (ended).
StreamGives(k, ended) ==
    \/ left = Unbounded
    \/ (k <= left /\ (ended => k = left))

\* What the iterator holds after it gave k lines.
LeftAfter(k) == IF left = Unbounded THEN Unbounded ELSE left - k

\* ---------------- The driver's read of the code ----------------
\* FrontEndApplication.run: raw = _next_line(lines), for every line the
\* stream may hold there.
CodeRead == { NextLine(Reader(buffer, eof), p) :
                 p \in Pick(Reader(buffer, eof), CodeLines) }

\* handleTransaction: code = (transactionCode or "").strip().lower()
Dispatched(rd) == Lower(OrEmptyStrip(rd.line))

\* The readers a handler starts with when the driver read a line that is
\* dispatched as c.
ReadersFor(c) ==
    { [rd EXCEPT !.n = 0, !.got = <<>>] :
        rd \in { r \in CodeRead : r.line # EOF /\ Strip(r.line) # ""
                                   /\ Dispatched(r) = c } }

OtherCodes ==
    { Dispatched(r) : r \in { x \in CodeRead : x.line # EOF } }
        \ {"", "login", "logout"}

\* A handler's result: what it returns and the state it leaves.
Result(resp, st) == [resp |-> resp, st |-> st]

\* One driver iteration that ran a handler: the handler read up to rd and
\* returned out.
Commit(c, rd, out) ==
    /\ code' = c
    /\ response' = out.resp
    /\ consumed' = rd.n
    /\ args' = rd.got
    /\ buffer' = rd.buf
    /\ eof' = rd.eof
    /\ logged_in' = out.st.logged_in
    /\ admin_mode' = out.st.admin_mode
    /\ account_holder_name' = out.st.account_holder_name
    /\ ever_logged_in' = out.st.ever_logged_in
    /\ accounts' = out.st.accounts
    /\ records' = out.st.records
    /\ sink' = out.st.sink
    /\ created_this_session' = out.st.created
    /\ deleted_this_session' = out.st.deleted
    /\ ntx' = ntx + 1
    /\ pc' = "respond"
    /\ LET taken == (IF buffer = <<>> THEN 1 ELSE 0) + rd.n + Len(rd.buf)
       IN  /\ StreamGives(taken, rd.eof)
           /\ left' = LeftAfter(taken)


\* ---------------- handleOtherTransactions: the shared checks ----------------
reject_if_created_this_session(st, acc) ==
    IF acc \in st.created
    THEN "ERROR: Account unavailable this session."
    ELSE None

reject_if_deleted_this_session(st, acc) ==
    IF acc \in st.deleted
    THEN "ERROR: Account no longer exists."
    ELSE None

must_be_owned_by_current_user(st, acc) ==
    IF st.admin_mode THEN None
    ELSE IF ~isAccountOwnedBy(st.accounts, acc, st.account_holder_name)
    THEN "ERROR: Account not owned by user."
    ELSE None

\* a or b, of two messages
OrMsg(a, b) == IF a # None THEN a ELSE b

\* ---------------- Withdrawal ----------------
\* Withdrawal with a funds check that wants more than the amount.
Withdrawal_funds_strict(st, acc_line, amt_line) ==
    LET acc_num == OrEmptyStrip(acc_line)
        amount_str == OrEmptyStrip(amt_line)
        deleted_msg == reject_if_deleted_this_session(st, acc_num)
        created_msg == reject_if_created_this_session(st, acc_num)
        owned_msg == must_be_owned_by_current_user(st, acc_num)
        parsed == ParseFloat(amount_str)
        amount == parsed[2]
    IN  IF acc_num = "" \/ amount_str = ""
        THEN Result("ERROR: Malformed input.", st)
        ELSE IF StrLen(acc_num) # 5 \/ ~IsDigit(acc_num)
        THEN Result("ERROR: Invalid account number.", st)
        ELSE IF deleted_msg # None THEN Result(deleted_msg, st)
        ELSE IF created_msg # None THEN Result(created_msg, st)
        ELSE IF ~doesAccountExist(st.accounts, acc_num)
        THEN Result("ERROR: Account does not exist.", st)
        ELSE IF isAccountDisabled(st.accounts, acc_num)
        THEN Result("ERROR: Account is disabled.", st)
        ELSE IF owned_msg # None THEN Result(owned_msg, st)
        ELSE IF ~parsed[1]
        THEN Result("ERROR: Invalid amount format.", st)
        ELSE IF FLt(amount, 0)
        THEN Result("ERROR: Negative amounts not allowed.", st)
        ELSE IF FLe(getBalance(st.accounts, acc_num), amount)
        THEN Result("ERROR: Insufficient funds.", st)
        ELSE IF ~st.admin_mode /\ FGt(amount, WITHDRAWAL_LIMIT_STANDARD)
        THEN Result("ERROR: Withdrawal exceeds session limit.", st)
        ELSE Result("Withdrawal accepted.",
                [st EXCEPT
                    !.accounts = setBalance(st.accounts, acc_num,
                        FSub(getBalance(st.accounts, acc_num), amount)),
                    !.records = addTransactionRecord(st.records,
                        formatTransactionRecordLine("01",
                            st.account_holder_name, acc_num, amount, "  "))])

Withdrawal(st, acc_line, amt_line) ==
    LET acc_num == OrEmptyStrip(acc_line)
        amount_str == OrEmptyStrip(amt_line)
        deleted_msg == reject_if_deleted_this_session(st, acc_num)
        created_msg == reject_if_created_this_session(st, acc_num)
        owned_msg == must_be_owned_by_current_user(st, acc_num)
        parsed == ParseFloat(amount_str)
        amount == parsed[2]
    IN  IF acc_num = "" \/ amount_str = ""
        THEN Result("ERROR: Malformed input.", st)
        ELSE IF StrLen(acc_num) # 5 \/ ~IsDigit(acc_num)
        THEN Result("ERROR: Invalid account number.", st)
        ELSE IF deleted_msg # None THEN Result(deleted_msg, st)
        ELSE IF created_msg # None THEN Result(created_msg, st)
        ELSE IF ~doesAccountExist(st.accounts, acc_num)
        THEN Result("ERROR: Account does not exist.", st)
        ELSE IF isAccountDisabled(st.accounts, acc_num)
        THEN Result("ERROR: Account is disabled.", st)
        ELSE IF owned_msg # None THEN Result(owned_msg, st)
        ELSE IF ~parsed[1]
        THEN Result("ERROR: Invalid amount format.", st)
        ELSE IF FLt(amount, 0)
        THEN Result("ERROR: Negative amounts not allowed.", st)
        ELSE IF FLt(getBalance(st.accounts, acc_num), amount)
        THEN Result("ERROR: Insufficient funds.", st)
        ELSE IF ~st.admin_mode /\ FGt(amount, WITHDRAWAL_LIMIT_STANDARD)
        THEN Result("ERROR: Withdrawal exceeds session limit.", st)
        ELSE Result("Withdrawal accepted.",
                [st EXCEPT
                    !.accounts = setBalance(st.accounts, acc_num,
                        FSub(getBalance(st.accounts, acc_num), amount)),
                    !.records = addTransactionRecord(st.records,
                        formatTransactionRecordLine("01",
                            st.account_holder_name, acc_num, amount, "  "))])

\* ---------------- Deposit ----------------
Deposit(st, acc_line, amt_line) ==
    LET acc_num == OrEmptyStrip(acc_line)
        amount_str == OrEmptyStrip(amt_line)
        deleted_msg == reject_if_deleted_this_session(st, acc_num)
        created_msg == reject_if_created_this_session(st, acc_num)
        owned_msg == must_be_owned_by_current_user(st, acc_num)
        parsed == ParseFloat(amount_str)
        amount == parsed[2]
    IN  IF acc_num = "" \/ amount_str = ""
        THEN Result("ERROR: Malformed input.", st)
        ELSE IF deleted_msg # None THEN Result(deleted_msg, st)
        ELSE IF created_msg # None THEN Result(created_msg, st)
        ELSE IF ~doesAccountExist(st.accounts, acc_num)
        THEN Result("ERROR: Account does not exist.", st)
        ELSE IF isAccountDisabled(st.accounts, acc_num)
        THEN Result("ERROR: Account is disabled.", st)
        ELSE IF owned_msg # None THEN Result(owned_msg, st)
        ELSE IF ~parsed[1]
        THEN Result("ERROR: Invalid amount format.", st)
        ELSE IF FLt(amount, 0)
        THEN Result("ERROR: Negative amounts not allowed.", st)
        ELSE Result("Deposit accepted.",
                [st EXCEPT
                    !.accounts = setBalance(st.accounts, acc_num,
                        FAdd(getBalance(st.accounts, acc_num), amount))])

\* The credit written to the source account.
TransferBalances_credits_source(accs, from_acc, to_acc, amount) ==
    LET debited == setBalance(accs, from_acc,
                              FSub(getBalance(accs, from_acc), amount))
    IN  setBalance(debited, from_acc, FAdd(getBalance(debited, to_acc), amount))

\* ---------------- Transfer ----------------
\* the two setBalance calls, in order
TransferBalances(accs, from_acc, to_acc, amount) ==
    LET debited == setBalance(accs, from_acc,
                              FSub(getBalance(accs, from_acc), amount))
    IN  setBalance(debited, to_acc, FAdd(getBalance(debited, to_acc), amount))

Transfer(st, from_line, to_line, amt_line) ==
    LET from_acc == OrEmptyStrip(from_line)
        to_acc == OrEmptyStrip(to_line)
        amount_str == OrEmptyStrip(amt_line)
        deleted_msg == OrMsg(reject_if_deleted_this_session(st, from_acc),
                             reject_if_deleted_this_session(st, to_acc))
        created_msg == OrMsg(reject_if_created_this_session(st, from_acc),
                             reject_if_created_this_session(st, to_acc))
        parsed == ParseFloat(amount_str)
        amount == parsed[2]
    IN  IF from_acc = "" \/ to_acc = "" \/ amount_str = ""
        THEN Result("ERROR: Malformed input.", st)
        ELSE IF deleted_msg # None THEN Result(deleted_msg, st)
        ELSE IF created_msg # None THEN Result(created_msg, st)
        ELSE IF ~doesAccountExist(st.accounts, from_acc)
        THEN Result("ERROR: Source account does not exist.", st)
        ELSE IF ~doesAccountExist(st.accounts, to_acc)
        THEN Result("ERROR: Destination account does not exist.", st)
        ELSE IF isAccountDisabled(st.accounts, from_acc)
                \/ isAccountDisabled(st.accounts, to_acc)
        THEN Result("ERROR: Account is disabled.", st)
        ELSE IF ~st.admin_mode
                /\ ~isAccountOwnedBy(st.accounts, from_acc,
                                     st.account_holder_name)
        THEN Result("ERROR: Source account not owned.", st)
        ELSE IF ~parsed[1]
        THEN Result("ERROR: Invalid amount format.", st)
        ELSE IF FLt(amount, 0)
        THEN Result("ERROR: Negative amounts not allowed.", st)
        ELSE IF FLt(getBalance(st.accounts, from_acc), amount)
        THEN Result("ERROR: Insufficient funds.", st)
        ELSE IF ~st.admin_mode /\ FGt(amount, TRANSFER_LIMIT_STANDARD)
        THEN Result("ERROR: Transfer exceeds session limit.", st)
        ELSE Result("Transfer accepted.",
                [st EXCEPT !.accounts =
                    TransferBalances(st.accounts, from_acc, to_acc, amount)])

\* ---------------- Paybill ----------------
\* Paybill with the funds check ahead of the ceiling, as in Withdrawal.
Paybill_funds_first(st, acc_line, company_line, amt_line) ==
    LET acc_num == OrEmptyStrip(acc_line)
        company == OrEmptyStrip(company_line)
        amount_str == OrEmptyStrip(amt_line)
        deleted_msg == reject_if_deleted_this_session(st, acc_num)
        created_msg == reject_if_created_this_session(st, acc_num)
        owned_msg == must_be_owned_by_current_user(st, acc_num)
        parsed == ParseFloat(amount_str)
        amount == parsed[2]
    IN  IF acc_num = "" \/ company = "" \/ amount_str = ""
        THEN Result("ERROR: Malformed input.", st)
        ELSE IF deleted_msg # None THEN Result(deleted_msg, st)
        ELSE IF created_msg # None THEN Result(created_msg, st)
        ELSE IF ~doesAccountExist(st.accounts, acc_num)
        THEN Result("ERROR: Invalid account number.", st)
        ELSE IF isAccountDisabled(st.accounts, acc_num)
        THEN Result("ERROR: Account is disabled.", st)
        ELSE IF owned_msg # None THEN Result(owned_msg, st)
        ELSE IF company \notin VALID_BILL_COMPANIES
        THEN Result("ERROR: Invalid bill company.", st)
        ELSE IF ~parsed[1]
        THEN Result("ERROR: Invalid amount format.", st)
        ELSE IF FLt(amount, 0)
        THEN Result("ERROR: Negative amounts not allowed.", st)
        ELSE IF FLt(getBalance(st.accounts, acc_num), amount)
        THEN Result("ERROR: Insufficient funds.", st)
        ELSE IF ~st.admin_mode /\ FGt(amount, PAYBILL_LIMIT_STANDARD)
        THEN Result("ERROR: Paybill exceeds session limit.", st)
        ELSE Result("Bill payment accepted.",
                [st EXCEPT
                    !.accounts = setBalance(st.accounts, acc_num,
                        FSub(getBalance(st.accounts, acc_num), amount))])


Paybill(st, acc_line, company_line, amt_line) ==
    LET acc_num == OrEmptyStrip(acc_line)
        company == OrEmptyStrip(company_line)
        amount_str == OrEmptyStrip(amt_line)
        deleted_msg == reject_if_deleted_this_session(st, acc_num)
        created_msg == reject_if_created_this_session(st, acc_num)
        owned_msg == must_be_owned_by_current_user(st, acc_num)
        parsed == ParseFloat(amount_str)
        amount == parsed[2]
    IN  IF acc_num = "" \/ company = "" \/ amount_str = ""
        THEN Result("ERROR: Malformed input.", st)
        ELSE IF deleted_msg # None THEN Result(deleted_msg, st)
        ELSE IF created_msg # None THEN Result(created_msg, st)
        ELSE IF ~doesAccountExist(st.accounts, acc_num)
        THEN Result("ERROR: Invalid account number.", st)
        ELSE IF isAccountDisabled(st.accounts, acc_num)
        THEN Result("ERROR: Account is disabled.", st)
        ELSE IF owned_msg # None THEN Result(owned_msg, st)
        ELSE IF company \notin VALID_BILL_COMPANIES
        THEN Result("ERROR: Invalid bill company.", st)
        ELSE IF ~parsed[1]
        THEN Result("ERROR: Invalid amount format.", st)
        ELSE IF FLt(amount, 0)
        THEN Result("ERROR: Negative amounts not allowed.", st)
        ELSE IF ~st.admin_mode /\ FGt(amount, PAYBILL_LIMIT_STANDARD)
        THEN Result("ERROR: Paybill exceeds session limit.", st)
        ELSE IF FLt(getBalance(st.accounts, acc_num), amount)
        THEN Result("ERROR: Insufficient funds.", st)
        ELSE Result("Bill payment accepted.",
                [st EXCEPT
                    !.accounts = setBalance(st.accounts, acc_num,
                        FSub(getBalance(st.accounts, acc_num), amount))])


\* ---------------- Privileged transactions ----------------
Create(st, name_line, bal_line) ==
    LET name == OrEmptyStrip(name_line)
        bal_str == OrEmptyStrip(bal_line)
        parsed == ParseFloat(bal_str)
        balance == parsed[2]
        new_num == findNextAvailableAccountNumber(st.accounts)
    IN  IF ~st.admin_mode
        THEN Result("ERROR: Privileged transaction not permitted.", st)
        ELSE IF name = "" \/ bal_str = ""
        THEN Result("ERROR: Malformed input.", st)
        ELSE IF StrLen(name) > MAX_ACCOUNT_NAME_LEN
        THEN Result("ERROR: Account holder name too long.", st)
        ELSE IF ~parsed[1]
        THEN Result("ERROR: Invalid amount format.", st)
        ELSE IF FGt(balance, MAX_BALANCE)
        THEN Result("ERROR: Initial balance exceeds maximum.", st)
        ELSE IF nameExists(st.accounts, name)
        THEN Result("ERROR: Duplicate account number.", st)
        ELSE IF new_num = None
        THEN Result("ERROR: Cannot create account.", st)
        ELSE Result("Account creation recorded.",
                [st EXCEPT
                    !.accounts = createAccount(st.accounts, new_num, name,
                                               balance),
                    !.created = st.created \cup {new_num}])

Delete(st, name_line, acc_line) ==
    LET name == OrEmptyStrip(name_line)
        acc_num == OrEmptyStrip(acc_line)
    IN  IF ~st.admin_mode
        THEN Result("ERROR: Privileged transaction not permitted.", st)
        ELSE IF name = "" \/ acc_num = ""
        THEN Result("ERROR: Malformed input.", st)
        ELSE IF ~nameExists(st.accounts, name)
        THEN Result("ERROR: Account holder name mismatch.", st)
        ELSE IF ~isAccountOwnedBy(st.accounts, acc_num, name)
        THEN Result("ERROR: Account number mismatch.", st)
        ELSE Result("Account deletion recorded.",
                [st EXCEPT
                    !.accounts = deleteAccount(st.accounts, acc_num),
                    !.deleted = st.deleted \cup {acc_num}])

\* Disable with the parameters looked at before the privilege.
Disable_malformed_first(st, name_line, acc_line) ==
    LET name == OrEmptyStrip(name_line)
        acc_num == OrEmptyStrip(acc_line)
    IN  IF name = "" \/ acc_num = ""
        THEN Result("ERROR: Malformed input.", st)
        ELSE IF ~st.admin_mode
        THEN Result("ERROR: Privileged transaction not permitted.", st)
        ELSE IF ~doesAccountExist(st.accounts, acc_num)
        THEN Result("ERROR: Account does not exist.", st)
        ELSE IF ~isAccountOwnedBy(st.accounts, acc_num, name)
        THEN Result("ERROR: Invalid account or holder.", st)
        ELSE Result("Account disabled.",
                [st EXCEPT
                    !.accounts = disableAccount(st.accounts, acc_num)])

Disable(st, name_line, acc_line) ==
    LET name == OrEmptyStrip(name_line)
        acc_num == OrEmptyStrip(acc_line)
    IN  IF ~st.admin_mode
        THEN Result("ERROR: Privileged transaction not permitted.", st)
        ELSE IF name = "" \/ acc_num = ""
        THEN Result("ERROR: Malformed input.", st)
        ELSE IF ~doesAccountExist(st.accounts, acc_num)
        THEN Result("ERROR: Account does not exist.", st)
        ELSE IF ~isAccountOwnedBy(st.accounts, acc_num, name)
        THEN Result("ERROR: Invalid account or holder.", st)
        ELSE Result("Account disabled.",
                [st EXCEPT
                    !.accounts = disableAccount(st.accounts, acc_num)])

ChangePlan(st, name_line, acc_line) ==
    LET name == OrEmptyStrip(name_line)
        acc_num == OrEmptyStrip(acc_line)
    IN  IF ~st.admin_mode
        THEN Result("ERROR: Privileged transaction not permitted.", st)
        ELSE IF name = "" \/ acc_num = ""
        THEN Result("ERROR: Malformed input.", st)
        ELSE IF ~doesAccountExist(st.accounts, acc_num)
                \/ ~isAccountOwnedBy(st.accounts, acc_num, name)
        THEN Result("ERROR: Invalid account or holder.", st)
        ELSE Result("Account plan changed.", st)

\* ---------------- The handlers with their reads ----------------
\* A run of a handler: the reader it leaves and its result.
Run(rd, out) == [rd |-> rd, out |-> out]

\* one _next_line where a well-formed stream holds a line of S
Reads(rd, S) == { NextLine(rd, p) : p \in Pick(rd, S) }

\* The name line read in every session.
AdminNameRead_always(st, rd) == Reads(rd, IgnoredLines)

\* if self.session.isAdminMode(): _ = self._next_line(lines)
AdminNameRead(st, rd) ==
    IF st.admin_mode THEN Reads(rd, IgnoredLines) ELSE {rd}

handleWithdrawal(st, rd) ==
    UNION { UNION { { Run(r3, Withdrawal(st, r2.line, r3.line)) :
                        r3 \in Reads(r2, AmtLines) } :
                    r2 \in Reads(r1, AccLines) } :
            r1 \in AdminNameRead(st, rd) }

handleDeposit(st, rd) ==
    UNION { UNION { { Run(r3, Deposit(st, r2.line, r3.line)) :
                        r3 \in Reads(r2, AmtLines) } :
                    r2 \in Reads(r1, AccLines) } :
            r1 \in AdminNameRead(st, rd) }

handleTransfer(st, rd) ==
    UNION { UNION { UNION {
              { Run(r4, Transfer(st, r2.line, r3.line, r4.line)) :
                  r4 \in Reads(r3, AmtLines) } :
              r3 \in Reads(r2, AccLines) } :
            r2 \in Reads(r1, AccLines) } :
          r1 \in AdminNameRead(st, rd) }

handlePaybill(st, rd) ==
    UNION { UNION { UNION {
              { Run(r4, Paybill(st, r2.line, r3.line, r4.line)) :
                  r4 \in Reads(r3, AmtLines) } :
              r3 \in Reads(r2, CompanyLines) } :
            r2 \in Reads(r1, AccLines) } :
          r1 \in AdminNameRead(st, rd) }

\* create with the privilege looked at before the parameter lines are read
handleCreate_checks_first(st, rd) ==
    IF ~st.admin_mode
    THEN { Run(rd, Result("ERROR: Privileged transaction not permitted.",
                          st)) }
    ELSE UNION { { Run(r2, Create(st, r1.line, r2.line)) :
                     r2 \in Reads(r1, AmtLines) } :
                 r1 \in Reads(rd, CreateNameLines) }

handleCreate(st, rd) ==
    UNION { { Run(r2, Create(st, r1.line, r2.line)) :
                r2 \in Reads(r1, AmtLines) } :
            r1 \in Reads(rd, CreateNameLines) }

handleDelete(st, rd) ==
    UNION { { Run(r2, Delete(st, r1.line, r2.line)) :
                r2 \in Reads(r1, AccLines) } :
            r1 \in Reads(rd, NameLines) }

handleDisable(st, rd) ==
    UNION { { Run(r2, Disable(st, r1.line, r2.line)) :
                r2 \in Reads(r1, AccLines) } :
            r1 \in Reads(rd, NameLines) }

handleChangePlan(st, rd) ==
    UNION { { Run(r2, ChangePlan(st, r1.line, r2.line)) :
                r2 \in Reads(r1, AccLines) } :
            r1 \in Reads(rd, NameLines) }

handleUnknown(st, rd) ==
    { Run(rd, Result("ERROR: Unknown transaction code.", st)) }

\* handleOtherTransactions with no session: the stream holds `avail` more
\* lines
handleNotLoggedIn(st, c, rd) ==
    { Run(ConsumeNLines(rd, ParamsWhenNotLoggedIn(c), avail),
          Result(IF st.ever_logged_in
                 THEN "ERROR: Login required."
                 ELSE "ERROR: Transaction rejected. Login required.", st)) :
        avail \in IF rd.eof THEN {0} ELSE 0..ParamsWhenNotLoggedIn(c) }

\* ---------------- Login ----------------
LoginSuccessful(mode) ==
    IF mode = "admin" THEN "Login successful (admin)."
    ELSE "Login successful (standard)."

BankCodes == {"deposit", "withdrawal", "transfer", "paybill"}

\* The lookahead pushed back only when the banner is suppressed.
LoginStart_keeps_other_codes(st, mode, name, rd) ==
    { LET next_code == Lower(OrEmptyStrip(peek.line))
      IN  Run(IF next_code \in BankCodes THEN PushBack(peek, peek.line)
              ELSE peek,
              Result(IF next_code \in BankCodes THEN NoResponse
                     ELSE LoginSuccessful(mode),
                     startSession(st, mode, name))) :
        peek \in Reads(rd, CodeLines) }

\* The lookahead compared as it was read, neither trimmed nor lower-cased.
LoginStart_as_read(st, mode, name, rd) ==
    { Run(PushBack(peek, peek.line),
          Result(IF peek.line \in BankCodes THEN NoResponse
                 ELSE LoginSuccessful(mode),
                 startSession(st, mode, name))) :
        peek \in Reads(rd, CodeLines) }

\* startSession, then the lookahead
LoginStart(st, mode, name, rd) ==
    { LET next_code == Lower(OrEmptyStrip(peek.line))
      IN  Run(PushBack(peek, peek.line),
              Result(IF next_code \in BankCodes THEN NoResponse
                     ELSE LoginSuccessful(mode),
                     startSession(st, mode, name))) :
        peek \in Reads(rd, CodeLines) }

handleLogin(st, rd) ==
    UNION {
      LET mode == Lower(OrEmptyStrip(r1.line))
      IN  IF st.logged_in
          THEN IF mode = "standard"
               THEN { Run(r2, Result("ERROR: Already logged in.", st)) :
                        r2 \in Reads(r1, NameLines) }
               ELSE { Run(r1, Result("ERROR: Already logged in.", st)) }
          ELSE IF mode \notin {"admin", "standard"}
          THEN { Run(r1, Result("ERROR: Malformed input.", st)) }
          ELSE IF mode = "standard"
          THEN UNION {
                 IF OrEmptyStrip(r2.line) = ""
                 THEN { Run(r2, Result("ERROR: Malformed input.",
                                       startSession(st, mode, ""))) }
                 ELSE LoginStart(st, mode, OrEmptyStrip(r2.line), r2) :
                 r2 \in Reads(r1, NameLines) }
          ELSE LoginStart(st, mode, "", r1) :
      r1 \in Reads(rd, ModeLines) }

\* A logout that leaves the created and deleted sets as they are.
handleLogout_keeps_sets(st) ==
    IF ~st.logged_in
    THEN Result("ERROR: No active session.", st)
    ELSE LET flushed == addEndOfSessionRecord(st.records)
             written == [st EXCEPT !.records = flushed, !.sink = flushed]
         IN  Result("Transaction file written.", endSession(written))

\* ---------------- Logout ----------------
\* The end-of-session record appended before the session is looked at.
handleLogout_appends_first(st) ==
    LET flushed == addEndOfSessionRecord(st.records)
        written == [st EXCEPT !.records = flushed, !.sink = flushed]
    IN  IF ~st.logged_in
        THEN Result("ERROR: No active session.",
                    [st EXCEPT !.records = flushed])
        ELSE Result("Transaction file written.",
                    [endSession(written) EXCEPT !.created = {},
                                                !.deleted = {}])

handleLogout(st) ==
    IF ~st.logged_in
    THEN Result("ERROR: No active session.", st)
    ELSE LET flushed == addEndOfSessionRecord(st.records)
             written == [st EXCEPT !.records = flushed, !.sink = flushed]
         IN  Result("Transaction file written.",
                    [endSession(written) EXCEPT !.created = {},
                                                !.deleted = {}])

\* ---------------- The driver loop ----------------
\* The ledgers loadFromFile may have built.
InitialLedgers ==
    { <<>>,
      ("10001" :> Account("Alice", "A", 100)),
      ("10001" :> Account("Alice", "A", 20000))
         @@ ("10002" :> Account("Bob", "A", 100)),
      ("10001" :> Account("Alice", "A", MAX_BALANCE))
         @@ ("10002" :> Account("Bob", "D", 100)) }

Init ==
    /\ logged_in = FALSE
    /\ admin_mode = FALSE
    /\ account_holder_name = ""
    /\ ever_logged_in = FALSE
    /\ accounts \in InitialLedgers
    /\ records = <<>>
    /\ sink = <<>>
    /\ created_this_session = {}
    /\ deleted_this_session = {}
    /\ buffer = <<>>
    /\ eof = FALSE
    /\ pc = "read"
    /\ code = None
    /\ response = None
    /\ consumed = 0
    /\ args = <<>>
    /\ ntx = 0
    /\ left = Unbounded

\* if not raw: break
Stop_on_blank ==
    /\ pc = "read"
    /\ \E r \in CodeRead : r.line = EOF \/ Strip(r.line) = ""
    /\ pc' = "done"
    /\ eof' = TRUE
    /\ UNCHANGED <<sessionVars, ledgerVars, logVars, buffer, code,
                   response, consumed, args, ntx, left>>

\* raw is None: break
Stop ==
    /\ pc = "read"
    /\ \E r \in CodeRead : r.line = EOF
    /\ StreamGives(0, TRUE)
    /\ pc' = "done"
    /\ eof' = TRUE
    /\ UNCHANGED <<sessionVars, ledgerVars, logVars, buffer, code,
                   response, consumed, args, ntx, left>>

\* if not transaction_code: continue
SkipBlank ==
    /\ pc = "read"
    /\ \E r \in CodeRead :
         /\ r.line # EOF
         /\ Strip(r.line) = ""
         /\ buffer' = r.buf
    /\ LET taken == IF buffer = <<>> THEN 1 ELSE 0
       IN  /\ StreamGives(taken, FALSE)
           /\ left' = LeftAfter(taken)
    /\ UNCHANGED <<sessionVars, ledgerVars, logVars, eof, pc, code,
                   response, consumed, args, ntx>>

\* if response: print(response); the next iteration starts with nothing
\* left of this one
Respond ==
    /\ pc = "respond"
    /\ pc' = "read"
    /\ code' = None
    /\ response' = None
    /\ consumed' = 0
    /\ args' = <<>>
    /\ UNCHANGED <<sessionVars, ledgerVars, logVars, buffer, eof, ntx, left>>

\* A driver iteration that dispatches code c to a handler with runs
\* handler(rd).
Transaction(c, handler(_)) ==
    /\ pc = "read"
    /\ ntx < MaxTx
    /\ \E rd \in ReadersFor(c) :
         \E r \in handler(rd) : Commit(c, r.rd, r.out)

TxLogin ==
    /\ pc = "read"
    /\ LET h(rd) == handleLogin(Cur, rd) IN Transaction("login", h)

TxLogout ==
    /\ pc = "read"
    /\ LET h(rd) == { Run(rd, handleLogout(Cur)) }
       IN  Transaction("logout", h)

TxNotLoggedIn ==
    /\ ~logged_in
    /\ \E c \in OtherCodes :
         LET h(rd) == handleNotLoggedIn(Cur, c, rd) IN Transaction(c, h)

TxWithdrawal ==
    /\ logged_in
    /\ LET h(rd) == handleWithdrawal(Cur, rd) IN Transaction("withdrawal", h)

TxDeposit ==
    /\ logged_in
    /\ LET h(rd) == handleDeposit(Cur, rd) IN Transaction("deposit", h)

TxTransfer ==
    /\ logged_in
    /\ LET h(rd) == handleTransfer(Cur, rd) IN Transaction("transfer", h)

TxPaybill ==
    /\ logged_in
    /\ LET h(rd) == handlePaybill(Cur, rd) IN Transaction("paybill", h)

TxCreate ==
    /\ logged_in
    /\ LET h(rd) == handleCreate(Cur, rd) IN Transaction("create", h)

TxDelete ==
    /\ logged_in
    /\ LET h(rd) == handleDelete(Cur, rd) IN Transaction("delete", h)

TxDisable ==
    /\ logged_in
    /\ LET h(rd) == handleDisable(Cur, rd) IN Transaction("disable", h)

TxChangePlan ==
    /\ logged_in
    /\ LET h(rd) == handleChangePlan(Cur, rd) IN Transaction("changeplan", h)

TxUnknown ==
    /\ logged_in
    /\ \E c \in OtherCodes \ {"withdrawal", "deposit", "transfer", "paybill",
                              "create", "delete", "disable", "changeplan"} :
         LET h(rd) == handleUnknown(Cur, rd) IN Transaction(c, h)

Next ==
    \/ Stop
    \/ SkipBlank
    \/ Respond
    \/ TxLogin
    \/ TxLogout
    \/ TxNotLoggedIn
    \/ TxWithdrawal
    \/ TxDeposit
    \/ TxTransfer
    \/ TxPaybill
    \/ TxCreate
    \/ TxDelete
    \/ TxDisable
    \/ TxChangePlan
    \/ TxUnknown

Spec == Init /\ [][Next]_vars

\* The same program over an input stream of fixed length, of up to MaxLines
\* lines. The loop of run is sequential: it takes its next step whenever it
\* has one.
InitFinite ==
    /\ logged_in = FALSE
    /\ admin_mode = FALSE
    /\ account_holder_name = ""
    /\ ever_logged_in = FALSE
    /\ accounts \in InitialLedgers
    /\ records = <<>>
    /\ sink = <<>>
    /\ created_this_session = {}
    /\ deleted_this_session = {}
    /\ buffer = <<>>
    /\ eof = FALSE
    /\ pc = "read"
    /\ code = None
    /\ response = None
    /\ consumed = 0
    /\ args = <<>>
    /\ ntx = 0
    /\ left \in 0..MaxLines

SpecFinite == InitFinite /\ [][Next]_vars /\ WF_vars(Next)


\* ======================= Properties =======================
\* A step in which the driver read a code and ran its handler.
Handled == pc = "read" /\ pc' = "respond"

MalformedInput == "ERROR: Malformed input."
FileWritten == "Transaction file written."

\* A handler's answers that are not rejections.
Acceptances ==
    {None, "Login successful (admin).", "Login successful (standard).",
     FileWritten, "Withdrawal accepted.", "Deposit accepted.",
     "Transfer accepted.", "Bill payment accepted.",
     "Account creation recorded.", "Account deletion recorded.",
     "Account disabled.", "Account plan changed."}

\* The parameter lines of a code as the spec's table for a rejection before
\* login has them.
DeclaredArity(c) ==
    CASE c \in {"withdrawal", "deposit"} -> 3
      [] c \in {"transfer", "paybill"} -> 4
      [] c \in {"create", "delete", "disable", "changeplan"} -> 2
      [] OTHER -> 0

FixedArityCodes ==
    {"withdrawal", "deposit", "transfer", "paybill",
     "create", "delete", "disable", "changeplan"}

MoneyCodes == {"withdrawal", "deposit", "transfer", "paybill"}

\* In a step of a money-movement handler, the position of its i-th
\* parameter among the lines read: an admin session reads a name line first.
Param(i) == args'[IF admin_mode THEN i + 1 ELSE i]

\* Account X has the same record, or is as absent, after the step as before.
RecordUnchanged(X) ==
    /\ (X \in DOMAIN accounts) = (X \in DOMAIN accounts')
    /\ X \in DOMAIN accounts => accounts'[X] = accounts[X]

\* C1: with no session logged in, a code other than login and logout makes
\* exactly 3 reads for withdrawal and deposit, 4 for transfer and paybill, 2
\* for create, delete, disable and changeplan and 0 for any other code, each
\* read taking one line unless the stream has ended; nothing is pushed back,
\* so the driver's next read is the line after them; the answer is the
\* login-required rejection, and the session, the ledger, the created and
\* deleted sets and the log are unchanged.
C1_RejectedBeforeLogin ==
    [][ (Handled /\ ~logged_in /\ code' \notin {"login", "logout"}) =>
          /\ response' = IF ever_logged_in
                         THEN "ERROR: Login required."
                         ELSE "ERROR: Transaction rejected. Login required."
          /\ Len(args') = DeclaredArity(code')
          /\ consumed' <= DeclaredArity(code')
          /\ ~eof' => consumed' = DeclaredArity(code')
          /\ buffer' = <<>>
          /\ UNCHANGED <<sessionVars, ledgerVars, logVars>> ]_vars

C1_Witness ==
    /\ pc = "respond"
    /\ ~logged_in
    /\ ever_logged_in
    /\ code = "paybill"
    /\ consumed = 4
    /\ response = "ERROR: Login required."

\* C2 as claimed: a code of fixed arity takes as many parameter lines in a
\* logged-in session, standard or admin, as it takes when it is rejected
\* with no session logged in (the stream holding that many lines).
C2_SameArityInEverySession ==
    [][ (Handled /\ code' \in FixedArityCodes /\ ~eof') =>
          consumed' = DeclaredArity(code') ]_vars

\* C2 as amended: the count of the rejection with no session is the count
\* of an admin session; a standard session takes one line fewer for
\* withdrawal, deposit, transfer and paybill, and the same 2 lines for
\* create, delete, disable and changeplan.
C2_ArityBySession ==
    [][ (Handled /\ code' \in FixedArityCodes /\ ~eof') =>
          consumed' = IF logged_in /\ ~admin_mode /\ code' \in MoneyCodes
                      THEN DeclaredArity(code') - 1
                      ELSE DeclaredArity(code') ]_vars

C2_Witness ==
    /\ pc = "respond"
    /\ logged_in
    /\ ~admin_mode
    /\ code = "transfer"
    /\ response = "Transfer accepted."
    /\ consumed = 3
    /\ ~eof

\* C3: a transaction that is answered with a rejection leaves the ledger
\* (its ids and every record) and the pending log as they were.
C3_RejectionHasNoEffect ==
    [][ (Handled /\ response' \notin Acceptances) =>
          (accounts' = accounts /\ records' = records) ]_vars

C3_Witness ==
    /\ pc = "respond"
    /\ code = "withdrawal"
    /\ response = "ERROR: Insufficient funds."
    /\ args[1] \in DOMAIN accounts
    /\ accounts[args[1]].balance < ParseFloat(args[2])[2]

\* The ceilings of a standard session, as the spec gives them.
Ceiling(c) ==
    CASE c = "withdrawal" -> 500
      [] c = "transfer" -> 1000
      [] c = "paybill" -> 2000

ExceedsLimit(c) ==
    CASE c = "withdrawal" -> "ERROR: Withdrawal exceeds session limit."
      [] c = "transfer" -> "ERROR: Transfer exceeds session limit."
      [] c = "paybill" -> "ERROR: Paybill exceeds session limit."

\* C4: in a standard session, a withdrawal, transfer or paybill from an
\* existing, active account of the session's holder (the transfer to an
\* existing, active account, the paybill to a known company) whose amount
\* is above the ceiling of its type is answered "Insufficient funds." when
\* the amount is also above the balance and the type is withdrawal or
\* transfer, and with the "exceeds session limit" message of its type
\* otherwise: paybill checks the ceiling first, the other two the funds.
C4_FundsAndCeilingOrder ==
    [][ (Handled /\ logged_in /\ ~admin_mode
           /\ code' \in {"withdrawal", "transfer", "paybill"}) =>
          LET src == args'[1]
              amt == ParseFloat(args'[Len(args')])
          IN  ( /\ src \in DOMAIN accounts
                /\ accounts[src].status = "A"
                /\ accounts[src].name = account_holder_name
                /\ amt[1]
                /\ FGt(amt[2], Ceiling(code'))
                /\ code' = "transfer" =>
                     /\ args'[2] \in DOMAIN accounts
                     /\ accounts[args'[2]].status = "A"
                /\ code' = "paybill" => args'[2] \in {"EC", "CQ", "FI"} )
              => response' =
                   IF FGt(amt[2], accounts[src].balance) /\ code' # "paybill"
                   THEN "ERROR: Insufficient funds."
                   ELSE ExceedsLimit(code') ]_vars

C4_Witness ==
    /\ pc = "respond"
    /\ logged_in
    /\ ~admin_mode
    /\ code = "paybill"
    /\ response = "ERROR: Paybill exceeds session limit."
    /\ args[1] \in DOMAIN accounts
    /\ accounts[args[1]].balance < ParseFloat(args[3])[2]

\* C5: once create has assigned X in this session, a withdrawal naming X
\* with an amount line is answered "Account unavailable this session." and
\* leaves the record of X as it was.
C5_CreatedIsUnavailable ==
    [][ (Handled /\ logged_in /\ code' = "withdrawal"
           /\ Param(1) \in created_this_session
           /\ OrEmptyStrip(Param(2)) # "") =>
          /\ response' = "ERROR: Account unavailable this session."
          /\ RecordUnchanged(Param(1)) ]_vars

\* The accounts a step's transaction names.
NamedAccounts ==
    CASE code' \in {"withdrawal", "deposit", "paybill"} -> {Param(1)}
      [] code' = "transfer" -> {Param(1), Param(2)}
      [] code' \in {"delete", "disable", "changeplan"} -> {args'[2]}
      [] OTHER -> {}

\* C6: a transaction that names an account created or deleted earlier in
\* the session is rejected and leaves the record of that account as it
\* was.
C6_CreatedOrDeletedIsFrozen ==
    [][ (Handled /\ logged_in) =>
          \A X \in NamedAccounts \cap
                   (created_this_session \cup deleted_this_session) :
             /\ response' \notin Acceptances
             /\ RecordUnchanged(X) ]_vars

\* C7: no balance of the ledger is negative (none is in the initial
\* ledger).
C7_BalancesNonNegative ==
    \A a \in DOMAIN accounts : accounts[a].balance >= 0

\* C8: no balance of the ledger is above the maximum balance of 99999
\* (none is in the initial ledger).
C8_BalancesAtMostMaximum ==
    \A a \in DOMAIN accounts : accounts[a].balance <= 99999

\* C9: what a successful logout flushes to the sink ends with the
\* end-of-session record, and every line before it is a "01" record of the
\* session being ended, so it carries the name of that session's holder:
\* no line of an earlier session and no earlier end-of-session record.
C9_FlushIsThisSession ==
    [][ (Handled /\ code' = "logout" /\ response' = FileWritten) =>
          LET n == Len(sink')
          IN  /\ n >= 1
              /\ sink'[n].code = "00"
              /\ \A i \in 1..(n - 1) :
                   /\ sink'[i].code = "01"
                   /\ sink'[i].name = account_holder_name ]_vars

C11_SuppressedBeforeMoneyCode ==
    [][ (Handled /\ ~logged_in /\ code' = "login") =>
          LET mode == Lower(OrEmptyStrip(args'[1]))
              peek == args'[Len(args')]
          IN  ( /\ mode \in {"admin", "standard"}
                /\ mode = "standard" => OrEmptyStrip(args'[2]) # "" )
              => /\ logged_in'
                 /\ Len(args') = (IF mode = "standard" THEN 3 ELSE 2)
                 /\ response' =
                      IF Lower(OrEmptyStrip(peek)) \in
                           {"deposit", "withdrawal", "transfer", "paybill"}
                      THEN NoResponse
                      ELSE IF mode = "admin"
                      THEN "Login successful (admin)."
                      ELSE "Login successful (standard)." ]_vars

C11_Witness ==
    /\ pc = "respond"
    /\ code = "login"
    /\ logged_in
    /\ Len(args) = 3
    /\ args[1] = "Standard"
    /\ args[3] = " Deposit "
    /\ response = NoResponse
    /\ buffer = <<" Deposit ">>

\* The spellings of the mode "standard" among the mode lines.
StandardSpellings == {"standard", "Standard"}

\* C12: a login while a session is logged in reads the mode line, and the
\* name line as well exactly when the mode is "standard" in any case; it
\* pushes nothing back, is answered "Already logged in." and leaves the
\* session (logged-in flag, privilege, holder, ever-logged-in flag), the
\* created and deleted sets, the ledger and the log as they were.
C12_LoginWhileLoggedIn ==
    [][ (Handled /\ logged_in /\ code' = "login") =>
          LET n == IF args'[1] \in StandardSpellings THEN 2 ELSE 1
          IN  /\ Len(args') = n
              /\ consumed' <= n
              /\ ~eof' => consumed' = n
              /\ buffer' = <<>>
              /\ response' = "ERROR: Already logged in."
              /\ UNCHANGED <<sessionVars, ledgerVars, logVars>> ]_vars

C12_Witness ==
    /\ pc = "respond"
    /\ code = "login"
    /\ response = "ERROR: Already logged in."
    /\ args = <<"Standard", "Bob">>
    /\ consumed = 2
    /\ logged_in
    /\ admin_mode
    /\ created_this_session # {}

PrivilegedCodes == {"create", "delete", "disable", "changeplan"}

\* C13: in a logged-in standard session, create, delete, disable and
\* changeplan each make exactly 2 reads (each taking a line unless the
\* stream has ended), are answered "Privileged transaction not permitted."
\* and leave the ledger and the created and deleted sets as they were,
\* whatever the two parameter lines hold.
C13_PrivilegedInStandardSession ==
    [][ (Handled /\ logged_in /\ ~admin_mode /\ code' \in PrivilegedCodes) =>
          /\ Len(args') = 2
          /\ consumed' <= 2
          /\ ~eof' => consumed' = 2
          /\ response' = "ERROR: Privileged transaction not permitted."
          /\ UNCHANGED ledgerVars ]_vars

C13_Witness ==
    /\ pc = "respond"
    /\ logged_in
    /\ ~admin_mode
    /\ code = "disable"
    /\ response = "ERROR: Privileged transaction not permitted."
    /\ consumed = 2
    /\ args[2] \in DOMAIN accounts
    /\ accounts[args[2]].name = args[1]
    /\ accounts[args[2]].status = "A"

\* C14: a code other than login and logout handled with no session logged
\* in is answered "Transaction rejected. Login required." as long as no
\* session was ever started, and "Login required." from the first started
\* session on: the ever-logged-in flag starts false, becomes true in every
\* step that starts a session and in no other, and no step (a logout
\* included) makes it false again.
C14_LoginRequiredWording ==
    /\ ~ever_logged_in
    /\ [][ /\ ever_logged_in' = (ever_logged_in \/ (~logged_in /\ logged_in'))
           /\ (Handled /\ ~logged_in /\ code' \notin {"login", "logout"}) =>
                /\ ~ever_logged_in =>
                     response' = "ERROR: Transaction rejected. Login required."
                /\ ever_logged_in => response' = "ERROR: Login required."
         ]_vars

C14_Witness ==
    /\ pc = "respond"
    /\ code = "deposit"
    /\ ~logged_in
    /\ ever_logged_in
    /\ sink # <<>>
    /\ response = "ERROR: Login required."

\* C15: a logout while a session is logged in appends one end-of-session
\* record ("00", account number 00000, amount 0) to the log, writes the
\* whole log to the sink, leaves no session logged in, the privilege
\* standard, the holder name empty and the created and deleted sets empty,
\* leaves the ledger as it was and is answered "Transaction file written.";
\* a logout with no session logged in is answered "No active session.",
\* appends and writes nothing and changes no state. Neither reads a line.
C15_Logout ==
    [][ (Handled /\ code' = "logout") =>
          /\ args' = <<>>
          /\ IF logged_in
             THEN /\ Len(records') = Len(records) + 1
                  /\ SubSeq(records', 1, Len(records)) = records
                  /\ records'[Len(records')].code = "00"
                  /\ records'[Len(records')].accNum = "00000"
                  /\ records'[Len(records')].amount = 0
                  /\ sink' = records'
                  /\ ~logged_in'
                  /\ ~admin_mode'
                  /\ account_holder_name' = ""
                  /\ created_this_session' = {}
                  /\ deleted_this_session' = {}
                  /\ accounts' = accounts
                  /\ response' = FileWritten
             ELSE /\ response' = "ERROR: No active session."
                  /\ UNCHANGED <<sessionVars, ledgerVars, logVars>> ]_vars

C15_Witness ==
    /\ pc = "respond"
    /\ code = "logout"
    /\ response = FileWritten
    /\ Len(sink) >= 2
    /\ sink[1].code = "01"
    /\ DOMAIN accounts = {"10001", "10002"}
    /\ accounts["10001"].balance = 0
    /\ ~logged_in
    /\ created_this_session = {}

\* The account numbers of the range 10001..99998 that the ledgers of the
\* model can hold, and the smallest one that the ledger does not hold.
FreeNumbers == {n \in 10001..10004 : IdStr(n) \notin DOMAIN accounts}
SmallestFree ==
    IdStr(CHOOSE n \in FreeNumbers : \A m \in FreeNumbers : n <= m)

C16_DuplicateWitness ==
    /\ pc = "respond"
    /\ code = "create"
    /\ admin_mode
    /\ response = "ERROR: Duplicate account number."
    /\ \E a \in DOMAIN accounts : accounts[a].name = args[1]

DebitCodes == {"withdrawal", "transfer", "paybill"}

Accepted(c) ==
    CASE c = "withdrawal" -> "Withdrawal accepted."
      [] c = "deposit" -> "Deposit accepted."
      [] c = "transfer" -> "Transfer accepted."
      [] c = "paybill" -> "Bill payment accepted."

\* The amount line of a money-movement step, parsed.
Amount == ParseFloat(OrEmptyStrip(args'[Len(args')]))

\* A step handles a withdrawal, transfer or paybill whose source account
\* exists, is active, is the session holder's in a standard session and was
\* neither created nor deleted in this session, whose amount is a
\* non-negative number within the ceiling of a standard session, whose
\* destination (transfer) exists, is active and was neither created nor
\* deleted in this session, whose company (paybill) is known, and whose
\* amount is exactly the balance of the source.
DebitOfWholeBalance ==
    /\ Handled
    /\ logged_in
    /\ code' \in DebitCodes
    /\ Param(1) \in DOMAIN accounts
    /\ accounts[Param(1)].status = "A"
    /\ ~admin_mode => accounts[Param(1)].name = account_holder_name
    /\ Param(1) \notin created_this_session \cup deleted_this_session
    /\ Amount[1]
    /\ Amount[2] >= 0
    /\ ~admin_mode => Amount[2] <= Ceiling(code')
    /\ code' = "transfer" =>
         /\ Param(2) \in DOMAIN accounts
         /\ accounts[Param(2)].status = "A"
         /\ Param(2) \notin created_this_session \cup deleted_this_session
    /\ code' = "paybill" => Param(2) \in {"EC", "CQ", "FI"}
    /\ Amount[2] = accounts[Param(1)].balance

\* C17 as claimed: a withdrawal, transfer or paybill of exactly the balance
\* of its source, otherwise valid, is accepted and leaves the balance of the
\* source at 0.
C17_WholeBalanceLeavesZero ==
    [][ DebitOfWholeBalance =>
          /\ response' = Accepted(code')
          /\ accounts'[Param(1)].balance = 0 ]_vars

\* C17 as amended: it is accepted, and leaves the balance of the source at
\* 0 unless it is a transfer to the source itself, which leaves the balance
\* as it was.
C17_WholeBalancePassesFunds ==
    [][ DebitOfWholeBalance =>
          /\ response' = Accepted(code')
          /\ accounts'[Param(1)].balance =
               IF code' = "transfer" /\ Param(2) = Param(1)
               THEN accounts[Param(1)].balance
               ELSE 0 ]_vars

C17_Witness ==
    /\ pc = "respond"
    /\ code = "transfer"
    /\ ~admin_mode
    /\ response = "Transfer accepted."
    /\ args[1] # args[2]
    /\ accounts[args[1]].balance = 0
    /\ ParseFloat(args[3])[2] = 100

\* The reads of a code handled in a logged-in session, by the code and the
\* privilege of the session alone.
LinesWhenLoggedIn(c, admin) ==
    CASE c \in {"withdrawal", "deposit"} -> IF admin THEN 3 ELSE 2
      [] c \in {"transfer", "paybill"} -> IF admin THEN 4 ELSE 3
      [] c \in {"create", "delete", "disable", "changeplan"} -> 2
      [] OTHER -> 0

\* C18: a code other than login and logout handled in a logged-in session
\* makes a number of reads fixed by the code and by whether the session is
\* admin (withdrawal, deposit: 2 standard, 3 admin; transfer, paybill: 3 and
\* 4; create, delete, disable, changeplan: 2; any other code: 0), each read
\* taking one line unless the stream has ended, and pushes nothing back:
\* whatever the lines hold, whatever the ledger holds and whichever check
\* rejects.
C18_LinesByCodeAndPrivilege ==
    [][ (Handled /\ logged_in /\ code' \notin {"login", "logout"}) =>
          /\ Len(args') = LinesWhenLoggedIn(code', admin_mode)
          /\ consumed' <= LinesWhenLoggedIn(code', admin_mode)
          /\ ~eof' => consumed' = LinesWhenLoggedIn(code', admin_mode)
          /\ buffer' = <<>> ]_vars

C18_Witness ==
    /\ pc = "respond"
    /\ logged_in
    /\ admin_mode
    /\ code = "paybill"
    /\ response = "ERROR: Malformed input."
    /\ args[2] = ""
    /\ consumed = 4
    /\ ~eof

\* C19: the push-back buffer never holds more than one line; a login that
\* starts a session and looks ahead leaves exactly the line it looked at in
\* the buffer (nothing when that was the end of the stream) and counts it
\* as not taken; and whenever the buffer holds a line, the driver's next
\* read returns that line and no other: the iteration either skips it as
\* blank or dispatches it as the code, and the stream is not asked, so
\* nothing is lost or reordered. Printing the response leaves the buffer
\* alone.
C19_LookaheadKeepsOrder ==
    /\ buffer = <<>>
    /\ [][ /\ Len(buffer') <= 1
           /\ (Handled /\ ~logged_in /\ code' = "login" /\ logged_in'
                 /\ response' # MalformedInput) =>
                LET peek == args'[Len(args')]
                IN  /\ buffer' = IF peek = EOF THEN <<>> ELSE <<peek>>
                    /\ ~eof' => consumed' = Len(args') - 1
           /\ (pc = "read" /\ buffer # <<>>) =>
                /\ pc' # "done"
                /\ Strip(Head(buffer)) = "" =>
                     (pc' = "read" /\ buffer' = <<>> /\ eof' = eof)
                /\ Strip(Head(buffer)) # "" =>
                     (pc' = "respond"
                        /\ code' = Lower(Strip(Head(buffer))))
           /\ pc = "respond" => buffer' = buffer
         ]_vars

C19_Witness ==
    /\ pc = "respond"
    /\ code = "login"
    /\ logged_in
    /\ response = "Login successful (admin)."
    /\ args = <<"admin", "create">>
    /\ buffer = <<"create">>
    /\ consumed = 1

\* What an accepted step of code c, naming src (and dst, for a transfer)
\* with amount amt, makes of the balance of account a, in the arithmetic
\* of floats.
BalanceAfter(c, a, src, dst, amt) ==
    LET debited == IF a = src /\ c \in DebitCodes
                   THEN FSub(accounts[a].balance, amt)
                   ELSE accounts[a].balance
    IN  IF (c = "deposit" /\ a = src) \/ (c = "transfer" /\ a = dst)
        THEN FAdd(debited, amt)
        ELSE debited

\* C20: an accepted withdrawal, deposit, transfer or paybill keeps the ids
\* of the ledger and every record's status and holder name, keeps every
\* balance but that of the named account (source and destination, for a
\* transfer), keeps the session, the created and deleted sets and the sink;
\* withdrawal and paybill take the amount from the named balance, deposit
\* adds it, transfer takes it from the source and adds it to the
\* destination; withdrawal appends exactly one "01" record (holder of the
\* session, account, amount) to the log and the other three append none.
C20_AcceptedMoneyMovement ==
    [][ (Handled /\ code' \in MoneyCodes /\ response' = Accepted(code')) =>
          LET src == Param(1)
              dst == IF code' = "transfer" THEN Param(2) ELSE Param(1)
          IN  /\ logged_in
              /\ Amount[1]
              /\ {src, dst} \subseteq DOMAIN accounts
              /\ DOMAIN accounts' = DOMAIN accounts
              /\ \A a \in DOMAIN accounts :
                   /\ accounts'[a].status = accounts[a].status
                   /\ accounts'[a].name = accounts[a].name
                   /\ accounts'[a].balance =
                        BalanceAfter(code', a, src, dst, Amount[2])
              /\ records' =
                   IF code' = "withdrawal"
                   THEN Append(records,
                               [code |-> "01", name |-> account_holder_name,
                                accNum |-> src, amount |-> Amount[2],
                                misc |-> "  "])
                   ELSE records
              /\ sink' = sink
              /\ UNCHANGED <<sessionVars, created_this_session,
                             deleted_this_session>> ]_vars

C20_Witness ==
    /\ pc = "respond"
    /\ code = "withdrawal"
    /\ response = "Withdrawal accepted."
    /\ ~admin_mode
    /\ Len(records) = 1
    /\ records[1].code = "01"
    /\ records[1].name = "Alice"
    /\ accounts["10001"].balance = 19900

\* The elements of a sequence.
Range(q) == {q[i] : i \in DOMAIN q}

\* The lines of the input not yet returned to the driver or a handler.
Unread == left + Len(buffer)

\* C21: over every input stream of fixed, finite length the loop of run
\* reaches its end. Every iteration (a blank line skipped, or a handler
\* run) takes at least one line of the input; a read of the exhausted
\* stream returns the end-of-stream sentinel, so a handler that runs out of
\* input still makes all its reads, gets the sentinel for each missing
\* line and returns a rejection; with no line left the driver's read
\* returns the sentinel and the loop stops, and it stops in no other way.
C21_DriverTerminates ==
    /\ <>(pc = "done")
    /\ [][ /\ pc = "read" /\ pc' # "done" => Unread' < Unread
           /\ (Handled /\ left' = 0 /\ eof') =>
                \A i \in 1..Len(args') :
                    (i > consumed' + Len(buffer')) => args'[i] = EOF
           /\ (Handled /\ code' # "login" /\ EOF \in Range(args')) =>
                response' \notin Acceptances
           /\ (pc = "read" /\ Unread = 0) => (pc' = "done" /\ eof')
           /\ pc' = "done" => (pc = "read" /\ Unread = 0)
         ]_vars

C21_Witness ==
    /\ pc = "done"
    /\ ntx = 2
    /\ logged_in
    /\ ~admin_mode
    /\ account_holder_name = "Alice"
    /\ left = 0
    /\ eof

\* C22: in every reachable state, with no session logged in the created
\* and deleted sets are empty, the privilege is standard and the holder
\* name is empty; and in an admin session the holder name is empty.
C22_SessionShape ==
    /\ ~logged_in =>
         /\ created_this_session = {}
         /\ deleted_this_session = {}
         /\ ~admin_mode
         /\ account_holder_name = ""
    /\ admin_mode => account_holder_name = ""

\* No session is logged in after an admin session that created account
\* 10001 for Bob in an empty ledger and was ended by a logout.
C22_Witness ==
    /\ pc = "read"
    /\ ~logged_in
    /\ ever_logged_in
    /\ Len(sink) >= 1
    /\ sink[Len(sink)].code = "00"
    /\ DOMAIN accounts = {"10001"}
    /\ accounts["10001"].name = "Bob"

\* a == b on floats: nan equals nothing
FEq(a, b) == a # NaN /\ b # NaN /\ a = b

\* C23: an accepted transfer conserves money: the balances of its source
\* and destination sum to the same before and after, and a transfer from
\* an account to itself leaves its balance unchanged; and in a standard
\* session a transfer from an existing, active account of the session's
\* holder to an existing, active account, of an amount that is a number,
\* not negative, not above the balance of the source and not above the
\* transfer ceiling, is accepted whoever holds the destination.
C23_TransferConservesMoney ==
    [][ (Handled /\ logged_in /\ code' = "transfer") =>
          LET src == Param(1)
              dst == Param(2)
              amt == ParseFloat(OrEmptyStrip(Param(3)))
          IN  /\ response' = "Transfer accepted." =>
                   IF src = dst
                   THEN FEq(accounts'[src].balance, accounts[src].balance)
                   ELSE FEq(FAdd(accounts'[src].balance,
                                 accounts'[dst].balance),
                            FAdd(accounts[src].balance,
                                 accounts[dst].balance))
              /\ ( /\ ~admin_mode
                   /\ {src, dst} \subseteq DOMAIN accounts
                   /\ accounts[src].name = account_holder_name
                   /\ accounts[src].status = "A"
                   /\ accounts[dst].status = "A"
                   /\ amt[1]
                   /\ FLe(0, amt[2])
                   /\ FLe(amt[2], accounts[src].balance)
                   /\ FLe(amt[2], 1000) )
                 => response' = "Transfer accepted." ]_vars

=============================================================================
